---- MODULE Spec2Model ----
(***************************************************************************)
(* The wslbridge backend I/O engine (src/backend/wslbridge-backend.cc and  *)
(* src/common/SocketIo.h) as a state machine: the supervisor (mainLoop),   *)
(* the socket-to-PTY worker, the PTY-to-socket worker with its credit      *)
(* window, the control-socket reader with its packet accumulator, and the  *)
(* environment they talk to (the frontend on both sockets, the child on    *)
(* the PTY).                                                               *)
(***************************************************************************)
EXTENDS Integers, Sequences, FiniteSets, TLC

(* ------------------------------ bounds --------------------------------- *)
\* largest window size tried (argv[6]); thresholds range over 1..size
MaxSize == 2
\* bytes the child writes to its terminal during a session
MaxPtyBytes == 1
\* control packets the frontend sends during a session
MaxCtlPackets == 1
\* bytes the frontend writes to the data socket during a session
MaxInBytes == 1

(* ------------------------- program constants --------------------------- *)
\* sizeof(Packet): a 4-byte enum tag and a 4-byte union
PacketSize == 8
\* std::array<Packet, 256> buf in readControlSocketThread
BufPackets == 256
\* std::array<char, 32 * 1024> buf in ptyToSocketThread
P2SBufSize == 32768
\* std::array<char, 8192> buf in socketToPtyThread
S2PBufSize == 8192
\* enum class Packet::Type { SetSize, IncreaseWindow, ChildExitStatus }
TypeSetSize == 0
TypeIncreaseWindow == 1
TypeChildExitStatus == 2

BufBytes == BufPackets * PacketSize

Min(a, b) == IF a <= b THEN a ELSE b

(* ------------------- the wire layout of struct Packet ------------------ *)
\* a 32-bit field in the host's (little-endian) byte order, two's complement
LE32(n) ==
    LET m == IF n >= 0 THEN n ELSE (n + 2147483647) + 1
        top == IF n >= 0 THEN 0 ELSE 128
    IN  << m % 256, (m \div 256) % 256, (m \div 65536) % 256,
           ((m \div 16777216) % 128) + top >>

\* a 16-bit field in the host's byte order
LE16(n) ==
    LET u == n % 65536
    IN  << u % 256, (u \div 256) % 256 >>

\* the int32_t stored in four bytes
Int32Of(b) ==
    LET m == b[1] + 256 * b[2] + 65536 * b[3] + 16777216 * (b[4] % 128)
    IN  IF b[4] >= 128 THEN (m - 2147483647) - 1 ELSE m

\* the uint16_t stored in two bytes
UInt16Of(b) == b[1] + 256 * b[2]

\* the bytes of one Packet: type tag, then the union
PacketBytes(type, u) == LE32(type) \o u

\* field reads of a Packet held as its PacketSize bytes
PacketType(p) == Int32Of(SubSeq(p, 1, 4))
WindowAmount(p) == Int32Of(SubSeq(p, 5, 8))
ExitStatusOf(p) == Int32Of(SubSeq(p, 5, 8))
TermCols(p) == UInt16Of(SubSeq(p, 5, 6))
TermRows(p) == UInt16Of(SubSeq(p, 7, 8))

(* --------------------------- wait statuses ----------------------------- *)
\* the status word waitpid stores for a child that called exit(code)
StatusExited(code) == (code % 256) * 256
\* the status word waitpid stores for a child killed by signal sig
StatusSignaled(sig) == sig
WIFEXITED(status) == (status % 128) = 0
WEXITSTATUS(status) == (status \div 256) % 256

(* ------------------------------- state --------------------------------- *)
VARIABLES
    scn,                    \* the session's environment: what the child and frontend may do
    size, threshold,        \* ioloop.windowParams, fixed by main
    window,                 \* ioloop.window, the shared credit counter
    mutex,                  \* holder of ioloop.windowMutex: "none", "p2s", "rcs"
    locWindow, pcP, chunk,  \* ptyToSocketThread: locWindow, position, buf[0..amt1)
    folded,                 \* the sum of the iw values that thread added to locWindow
    pcS, inBuf,             \* socketToPtyThread: position, buf[0..amt1)
    pcR, accum, rbuf, fullPacketCount, idx,   \* readControlSocketThread locals
    pcM, exitStatus,        \* mainLoop: position, exitStatus
    exited, exitCause,      \* how the process ended: "running", "exit0", "exit1", "abort"
    ptyOut, ptyPos,         \* bytes the child wrote to its terminal; how many were read
    ptyIn, winsize,         \* bytes delivered to the child's terminal; its window size
    childState, childStatus,\* "running", "zombie", "reaped"; the wait status word
    childHow,               \* how the child ended: <<"exited", code>> or <<"signaled", sig>>
    sockOut,                \* bytes the backend wrote to the data socket
    dataSock,               \* "open", "peerClosed" (frontend dropped it), "shutdown"
    dataIn, inSent,         \* frontend bytes in flight on the data socket; bytes sent
    ctlIn, ctlSent,         \* frontend bytes in flight on the control socket; packets sent
    ctlSock,                \* "open", "peerClosed"
    ctlOut,                 \* packets the backend wrote to the control socket
    dispatched, credited,   \* packets handed to handlePacket; sum of deltas added
    failed                  \* the socket calls that returned an error or zero so far

wp     == << size, threshold, scn >>
pv     == << locWindow, chunk, folded >>
sv     == << pcS, inBuf >>
rv     == << pcR, accum, rbuf, fullPacketCount, idx >>
mv     == << pcM, exitStatus >>
xv     == << exited, exitCause >>
ptyv   == << ptyOut, ptyPos, ptyIn, winsize >>
childv == << childState, childStatus, childHow >>
dsv    == << sockOut, dataSock, dataIn, inSent >>
csv    == << ctlIn, ctlSent, ctlSock, ctlOut >>
hv     == << dispatched, credited, failed >>

vars == << wp, window, mutex, pv, pcP, sv, rv, mv, xv, ptyv, childv, dsv, csv, hv >>

\* main's checks on argv[6], argv[7]: size >= 1, 1 <= threshold <= size
WindowParamsOk(s, t) == s >= 1 /\ t >= 1 /\ t <= s

\* the exit codes and the killing signals tried
ExitCodes == {0, 258}
Signals == {9}
\* the ways the child may end
Endings == ({"exited"} \X ExitCodes) \cup ({"signaled"} \X Signals)

\* the packets the frontend may send: a resize, credit, a type the backend rejects
FrontendPackets ==
    {PacketBytes(TypeSetSize, LE16(132) \o LE16(43))}
        \cup {PacketBytes(TypeIncreaseWindow, LE32(d)) : d \in 0..MaxSize}
        \cup {PacketBytes(255, LE32(0))}

\* an environment: the bytes the child prints, the control packets and data bytes
\* the frontend sends, and whether the control stream arrives in pieces smaller
\* than what is queued (a read then returns part of a packet), and whether the
\* frontend keeps its sockets open until it has the exit packet; which packets
\* the frontend sends and how the child may end; whether the frontend grants
\* credit only for bytes it has received (not unless a scenario says so)
Scenario(ptyBytes, ctlPackets, inBytes, shortReads, orderly, packets, endings) ==
    [ptyBytes |-> ptyBytes, ctlPackets |-> ctlPackets, inBytes |-> inBytes,
     shortReads |-> shortReads, orderly |-> orderly, packets |-> packets,
     endings |-> endings, honest |-> FALSE]

\* the state when mainLoop has started its three threads
Setup(s) ==
    /\ scn = s
    /\ size \in 1..MaxSize
    /\ threshold \in 1..MaxSize
    /\ WindowParamsOk(size, threshold)
    /\ window = 0
    /\ mutex = "none"
    /\ locWindow = size
    /\ pcP = "top"
    /\ chunk = << >>
    /\ folded = 0
    /\ pcS = "read"
    /\ inBuf = << >>
    /\ pcR = "read"
    /\ accum = 0
    /\ rbuf = << >>
    /\ fullPacketCount = 0
    /\ idx = 0
    /\ pcM = "waitpid"
    /\ exitStatus = 0
    /\ exited = "running"
    /\ exitCause = "none"
    /\ ptyOut = << >>
    /\ ptyPos = 0
    /\ ptyIn = << >>
    /\ winsize = << 80, 24 >>
    /\ childState = "running"
    /\ childStatus = 0
    /\ childHow = << "running", 0 >>
    /\ sockOut = << >>
    /\ dataSock = "open"
    /\ dataIn = << >>
    /\ inSent = 0
    /\ ctlIn = << >>
    /\ ctlSent = << >>
    /\ ctlSock = "open"
    /\ ctlOut = << >>
    /\ dispatched = << >>
    /\ credited = 0
    /\ failed = {}

Init ==
    Setup(Scenario(MaxPtyBytes, MaxCtlPackets, MaxInBytes, FALSE, FALSE, FrontendPackets,
                   Endings))

Alive == exited = "running"

\* (variant: the message is printed and the caller carries on)
ConnectionBrokenAbort_Return(cause) == UNCHANGED xv

\* exit(1) after the "connection broken" message
ConnectionBrokenAbort(cause) == exited' = "exit1" /\ exitCause' = cause

\* a failed assert(): abort()
AssertFail(cause) == exited' = "abort" /\ exitCause' = cause

(* ----------------- ptyToSocketThread (the credit consumer) ------------- *)
\* (variant: the threshold is not consulted)
HasWindow_Always(lw) == TRUE

\* hasWindow's result: locWindow >= windowThreshold
HasWindow(lw) == lw >= threshold

\* the check of the exchanged-out credit: assert(iw <= windowSize - locWindow)
FoldOk(iw, lw) == iw <= size - lw

\* the check at the head of the loop: assert(locWindow >= 0 && locWindow <= windowSize)
LocWindowOk(lw) == lw >= 0 /\ lw <= size

\* (variant: the count ignores the remaining credit)
ReadCount_NoWindow(lw) == P2SBufSize

\* the count handed to the PTY read: std::min<size_t>(buf.size(), locWindow)
ReadCount(lw) == Min(P2SBufSize, lw)

\* the loop head: the assertion, then hasWindow(false)
P2STop ==
    /\ Alive /\ pcP = "top"
    /\ IF ~LocWindowOk(locWindow)
         THEN AssertFail("locWindow") /\ UNCHANGED pcP
         ELSE /\ pcP' = IF HasWindow(locWindow) THEN "read" ELSE "fold"
              /\ UNCHANGED xv
    /\ UNCHANGED << wp, window, mutex, pv, sv, rv, mv, ptyv, childv, dsv, csv, hv >>

\* (variant: the counter is read but not cleared)
WindowExchange_Load(w) == w

\* what ioloop->window.exchange(0) leaves in the counter
WindowExchange(w) == 0

\* hasWindow() outside the mutex: exchange the shared counter to zero and fold it in
P2SFold ==
    /\ Alive /\ pcP = "fold"
    /\ window' = WindowExchange(window)
    /\ IF ~FoldOk(window, locWindow)
         THEN AssertFail("fold") /\ UNCHANGED << locWindow, folded, pcP >>
         ELSE /\ locWindow' = locWindow + window
              /\ folded' = folded + window
              /\ pcP' = IF HasWindow(locWindow + window) THEN "read" ELSE "lock"
              /\ UNCHANGED xv
    /\ UNCHANGED << wp, mutex, chunk, sv, rv, mv, ptyv, childv, dsv, csv, hv >>

\* std::unique_lock lock(windowMutex), and the re-lock when a wait returns
P2SLock ==
    /\ Alive /\ pcP \in {"lock", "woken"}
    /\ mutex = "none"
    /\ mutex' = "p2s"
    /\ pcP' = "pred"
    /\ UNCHANGED << wp, window, pv, sv, rv, mv, xv, ptyv, childv, dsv, csv, hv >>

\* windowIncrease.wait(lock, hasWindow): evaluate the predicate under the mutex;
\* true leaves the wait (and the lock's scope), false releases the mutex and blocks
P2SWaitPred ==
    /\ Alive /\ pcP = "pred"
    /\ window' = WindowExchange(window)
    /\ IF ~FoldOk(window, locWindow)
         THEN AssertFail("fold") /\ UNCHANGED << locWindow, folded, pcP, mutex >>
         ELSE /\ locWindow' = locWindow + window
              /\ folded' = folded + window
              /\ pcP' = IF HasWindow(locWindow + window) THEN "read" ELSE "waiting"
              /\ mutex' = "none"
              /\ UNCHANGED xv
    /\ UNCHANGED << wp, chunk, sv, rv, mv, ptyv, childv, dsv, csv, hv >>

\* a condition variable may wake a waiter that nobody notified
P2SSpuriousWake ==
    /\ Alive /\ pcP = "waiting"
    /\ pcP' = "woken"
    /\ UNCHANGED << wp, window, mutex, pv, sv, rv, mv, xv, ptyv, childv, dsv, csv, hv >>

\* readRestarting(childFd, buf, min(buf.size(), locWindow)); <= 0 shuts the data
\* socket down and ends the worker
\* (variant: the worker returns and leaves the data socket as it is)
PtyReadFailed_NoShutdown == pcP' = "done" /\ UNCHANGED << dataSock, xv >>

\* if (amt1 <= 0): shutdown(socketFd, SHUT_RDWR); break
PtyReadFailed == dataSock' = "shutdown" /\ pcP' = "done" /\ UNCHANGED xv

P2SRead ==
    /\ Alive /\ pcP = "read"
    /\ LET count == ReadCount(locWindow)
           avail == Len(ptyOut) - ptyPos
       IN  /\ count <= 0 \/ avail > 0 \/ childState # "running"
           /\ IF count > 0 /\ avail > 0
                THEN /\ chunk' = SubSeq(ptyOut, ptyPos + 1, ptyPos + Min(count, avail))
                     /\ ptyPos' = ptyPos + Min(count, avail)
                     /\ pcP' = "write"
                     /\ UNCHANGED << dataSock, xv >>
                ELSE /\ PtyReadFailed
                     /\ UNCHANGED << chunk, ptyPos >>
    /\ UNCHANGED << wp, window, mutex, locWindow, folded, sv, rv, mv, ptyOut, ptyIn, winsize,
                    childv, sockOut, dataIn, inSent, csv, hv >>

\* (variant: the chunk lands ahead of what was written before)
DataWrite_Prepend(out, bytes, k) == SubSeq(bytes, 1, k) \o out

\* writeAllRestarting(socketFd, buf, amt1): every byte, or a failure after some
DataWrite(out, bytes, k) == out \o SubSeq(bytes, 1, k)

P2SWrite ==
    /\ Alive /\ pcP = "write"
    /\ \E k \in (IF dataSock = "open" THEN {Len(chunk)} ELSE 0..Len(chunk)) :
          /\ sockOut' = DataWrite(sockOut, chunk, k)
          /\ IF k = Len(chunk)
               THEN pcP' = "dec" /\ UNCHANGED << xv, failed >>
               ELSE /\ failed' = failed \cup {"dataWrite"}
                    /\ ConnectionBrokenAbort("dataWrite") /\ UNCHANGED pcP
    /\ UNCHANGED << wp, window, mutex, pv, sv, rv, mv, ptyv, childv, dataSock, dataIn,
                    inSent, csv, dispatched, credited >>

\* locWindow -= amt1
P2SDec ==
    /\ Alive /\ pcP = "dec"
    /\ locWindow' = locWindow - Len(chunk)
    /\ chunk' = << >>
    /\ pcP' = "top"
    /\ UNCHANGED << wp, window, mutex, folded, sv, rv, mv, xv, ptyv, childv, dsv, csv, hv >>

P2SStep ==
    P2STop \/ P2SFold \/ P2SLock \/ P2SWaitPred \/ P2SRead \/ P2SWrite \/ P2SDec

(* ------------- readControlSocketThread and handlePacket ---------------- *)
\* bytes stored at &bufRaw[off]
WriteAt(buf, off, bytes) ==
    [k \in 1..(IF off + Len(bytes) > Len(buf) THEN off + Len(bytes) ELSE Len(buf)) |->
        IF k > off /\ k <= off + Len(bytes) THEN bytes[k - off] ELSE buf[k]]

\* buf[i], the i-th whole Packet of the buffer (i from 0)
PacketAt(buf, i) == SubSeq(buf, i * PacketSize + 1, (i + 1) * PacketSize)

\* (variant: the count is taken one byte short, so a packet that has just
\* become whole is not counted)
FullPacketCount_Short(acc) == IF acc = 0 THEN 0 ELSE (acc - 1) \div PacketSize

\* accum / sizeof(Packet)
FullPacketCount(acc) == acc \div PacketSize

\* (variant: the partial packet is not moved to the front)
MemMove_None(buf, from, n) == buf

\* memmove(&buf[0], &buf[fullPacketCount], accum): n bytes from offset from to 0
MemMove(buf, from, n) ==
    [k \in 1..Len(buf) |-> IF k <= n THEN buf[from + k] ELSE buf[k]]

\* (variant: the upper bound on the delta is not checked)
IncreaseOk_NoUpper(cw, iw) == cw >= 0 /\ cw <= size /\ iw >= 0

\* (variant: a delta of zero is refused)
IncreaseOk_Positive(cw, iw) == cw >= 0 /\ cw <= size /\ iw > 0 /\ iw <= size - cw

\* the check on an IncreaseWindow packet:
\* assert(cw >= 0 && cw <= max && iw >= 0 && iw <= max - cw)
IncreaseOk(cw, iw) == cw >= 0 /\ cw <= size /\ iw >= 0 /\ iw <= size - cw

\* (variant: the notification is left out)
NotifyOne_Dropped(pc) == pc

\* windowIncrease.notify_one(): a worker blocked in the wait is woken
NotifyOne(pc) == IF pc = "waiting" THEN "woken" ELSE pc

\* what a read of the control socket may return when m bytes could be returned
ReadSizes(m) == IF scn.shortReads THEN 1..m ELSE {m}

\* one read of the control socket: <= 0 is the failure hook, otherwise the bytes
\* are appended at accum and the whole packets counted
RcsRead ==
    /\ Alive /\ pcR = "read"
    /\ LET request == BufBytes - accum
           avail   == Len(ctlIn)
       IN  /\ request <= 0 \/ avail > 0 \/ ctlSock # "open"
           /\ IF request > 0 /\ avail > 0
                THEN \E n \in ReadSizes(Min(request, avail)) :
                        /\ rbuf' = WriteAt(rbuf, accum, SubSeq(ctlIn, 1, n))
                        /\ ctlIn' = SubSeq(ctlIn, n + 1, Len(ctlIn))
                        /\ accum' = accum + n
                        /\ IF accum + n <= BufBytes
                             THEN /\ fullPacketCount' = FullPacketCount(accum + n)
                                  /\ idx' = 0
                                  /\ pcR' = "dispatch"
                                  /\ UNCHANGED xv
                             ELSE /\ AssertFail("accum")
                                  /\ UNCHANGED << fullPacketCount, idx, pcR >>
                     /\ UNCHANGED failed
                ELSE /\ failed' = failed \cup {"ctlRead"}
                     /\ ConnectionBrokenAbort("ctlRead")
                     /\ UNCHANGED << rv, ctlIn >>
    /\ UNCHANGED << wp, window, mutex, pv, pcP, sv, mv, ptyv, childv, dsv, ctlSent,
                    ctlSock, ctlOut, dispatched, credited >>

\* (variant: an unexpected packet is skipped)
UnexpectedPacket_Ignored == UNCHANGED xv

\* default: the "unexpected packet" message and exit(1)
UnexpectedPacket == exited' = "exit1" /\ exitCause' = "protocol"

\* packetHandlerFunc(userObj, buf[i]) up to its first wait: SetSize is the ioctl,
\* IncreaseWindow reads the counter once and checks it, anything else is exit(1)
RcsDispatch ==
    /\ Alive /\ pcR = "dispatch" /\ idx < fullPacketCount
    /\ LET p == PacketAt(rbuf, idx)
       IN  /\ dispatched' = Append(dispatched, p)
           /\ IF PacketType(p) = TypeSetSize
                THEN /\ winsize' = << TermCols(p), TermRows(p) >>
                     /\ idx' = idx + 1
                     /\ UNCHANGED << pcR, xv >>
                ELSE IF PacketType(p) = TypeIncreaseWindow
                THEN /\ IF IncreaseOk(window, WindowAmount(p))
                          THEN pcR' = "iw_lock" /\ UNCHANGED xv
                          ELSE AssertFail("increase") /\ UNCHANGED pcR
                     /\ UNCHANGED << winsize, idx >>
                ELSE /\ UnexpectedPacket
                     /\ UNCHANGED << winsize, idx, pcR >>
    /\ UNCHANGED << wp, window, mutex, pv, pcP, sv, accum, rbuf, fullPacketCount, mv,
                    ptyOut, ptyPos, ptyIn, childv, dsv, csv, credited, failed >>

\* (variant: the add is not guarded)
WindowLockGuard_Absent == UNCHANGED mutex

\* std::lock_guard<std::mutex> lock(ioloop->windowMutex): blocks until it is free
WindowLockGuard == mutex = "none" /\ mutex' = "rcs"

RcsLock ==
    /\ Alive /\ pcR = "iw_lock"
    /\ WindowLockGuard
    /\ pcR' = "iw_add"
    /\ UNCHANGED << wp, window, pv, pcP, sv, accum, rbuf, fullPacketCount, idx, mv, xv,
                    ptyv, childv, dsv, csv, hv >>

\* ioloop->window += iw, then the guard's scope ends
RcsAdd ==
    /\ Alive /\ pcR = "iw_add"
    /\ LET iw == WindowAmount(PacketAt(rbuf, idx))
       IN  /\ window' = window + iw
           /\ credited' = credited + iw
    /\ mutex' = "none"
    /\ pcR' = "iw_notify"
    /\ UNCHANGED << wp, pv, pcP, sv, accum, rbuf, fullPacketCount, idx, mv, xv,
                    ptyv, childv, dsv, csv, dispatched, failed >>

\* ioloop->windowIncrease.notify_one(), and on to the next packet
RcsNotify ==
    /\ Alive /\ pcR = "iw_notify"
    /\ pcP' = NotifyOne(pcP)
    /\ idx' = idx + 1
    /\ pcR' = "dispatch"
    /\ UNCHANGED << wp, window, mutex, pv, sv, accum, rbuf, fullPacketCount, mv, xv,
                    ptyv, childv, dsv, csv, hv >>

\* after the last whole packet: drop the dispatched bytes, keep the partial packet
RcsShift ==
    /\ Alive /\ pcR = "dispatch" /\ idx >= fullPacketCount
    /\ LET fullPacketBytes == fullPacketCount * PacketSize
       IN  /\ accum' = accum - fullPacketBytes
           /\ rbuf' = MemMove(rbuf, fullPacketBytes, accum - fullPacketBytes)
    /\ pcR' = "read"
    /\ UNCHANGED << wp, window, mutex, pv, pcP, sv, fullPacketCount, idx, mv, xv,
                    ptyv, childv, dsv, csv, hv >>

RcsStep == RcsRead \/ RcsDispatch \/ RcsLock \/ RcsAdd \/ RcsNotify \/ RcsShift

(* --------------------------- socketToPtyThread ------------------------- *)
\* (variant: a failed data-socket read is treated as a broken connection)
S2PReadFailed_Abort == ConnectionBrokenAbort("dataRead") /\ UNCHANGED pcS

\* if (amt1 <= 0) break: the worker returns, the process goes on
S2PReadFailed == pcS' = "done" /\ UNCHANGED xv

\* readRestarting(socketFd, buf, buf.size()); <= 0 leaves the loop.  After this
\* process shut the socket down, pending input may or may not still be returned.
S2PRead ==
    /\ Alive /\ pcS = "read"
    /\ Len(dataIn) > 0 \/ dataSock # "open"
    /\ \E n \in (IF dataSock = "shutdown" THEN {0, Min(S2PBufSize, Len(dataIn))}
                 ELSE {Min(S2PBufSize, Len(dataIn))}) :
          IF n <= 0
            THEN /\ failed' = failed \cup {"dataRead"}
                 /\ S2PReadFailed /\ UNCHANGED << inBuf, dataIn >>
            ELSE /\ inBuf' = SubSeq(dataIn, 1, n)
                 /\ dataIn' = SubSeq(dataIn, n + 1, Len(dataIn))
                 /\ pcS' = "write"
                 /\ UNCHANGED << failed, xv >>
    /\ UNCHANGED << wp, window, mutex, pv, pcP, rv, mv, ptyv, childv, sockOut,
                    dataSock, inSent, csv, dispatched, credited >>

\* writeAllRestarting(childFd, buf, amt1), its result ignored: the write fails
\* once the child is gone
PtyWrite(in, bytes, ok) == IF ok THEN in \o bytes ELSE in

\* (variant: a failed PTY write ends the worker)
PtyWriteDone_Checked(ok) == pcS' = (IF ok THEN "read" ELSE "done") /\ UNCHANGED xv

\* the statement after the write: its result is not looked at, the loop goes on
PtyWriteDone(ok) == pcS' = "read" /\ UNCHANGED xv

S2PWrite ==
    /\ Alive /\ pcS = "write"
    /\ ptyIn' = PtyWrite(ptyIn, inBuf, childState = "running")
    /\ inBuf' = << >>
    /\ PtyWriteDone(childState = "running")
    /\ UNCHANGED << wp, window, mutex, pv, pcP, rv, mv, ptyOut, ptyPos, winsize,
                    childv, dsv, csv, hv >>

S2PStep == S2PRead \/ S2PWrite

(* ------------------------------- mainLoop ------------------------------ *)
\* (variant: the raw status word is sent for a normal exit)
DecodeStatus_Raw(status) == IF WIFEXITED(status) THEN status ELSE 1

\* the status decoded after waitpid
DecodeStatus(status) == IF WIFEXITED(status) THEN WEXITSTATUS(status) ELSE 1

\* (variant: the packet carries the wrong type tag)
ChildExitStatusPacket_WrongTag(status) == PacketBytes(TypeSetSize, LE32(status))

\* Packet p = { Packet::Type::ChildExitStatus }; p.u.exitStatus = exitStatus
ChildExitStatusPacket(status) == PacketBytes(TypeChildExitStatus, LE32(status))

\* waitpid(child.pid, &exitStatus, 0) returned the pid: reap and decode
MainWaitpid ==
    /\ Alive /\ pcM = "waitpid"
    /\ childState = "zombie"
    /\ childState' = "reaped"
    /\ exitStatus' = DecodeStatus(childStatus)
    /\ pcM' = "writeExit"
    /\ UNCHANGED << wp, window, mutex, pv, pcP, sv, rv, xv, ptyv, childStatus, childHow,
                    dsv, csv, hv >>

\* waitpid returned something else: perror and exit(1)
MainWaitpidFail ==
    /\ Alive /\ pcM = "waitpid"
    /\ exited' = "exit1" /\ exitCause' = "waitpid"
    /\ UNCHANGED << wp, window, mutex, pv, pcP, sv, rv, mv, ptyv, childv, dsv, csv, hv >>

\* writePacket(ioloop, p): the packet is written, or the connection is broken
MainWritePacket ==
    /\ Alive /\ pcM = "writeExit"
    /\ \E ok \in (IF ctlSock = "open" THEN {TRUE} ELSE BOOLEAN) :
          IF ok
            THEN /\ ctlOut' = Append(ctlOut, ChildExitStatusPacket(exitStatus))
                 /\ pcM' = "join_s2p"
                 /\ UNCHANGED << xv, failed >>
            ELSE /\ failed' = failed \cup {"ctlWrite"}
                 /\ ConnectionBrokenAbort("ctlWrite")
                 /\ UNCHANGED << ctlOut, pcM >>
    /\ UNCHANGED << wp, window, mutex, pv, pcP, sv, rv, exitStatus, ptyv, childv, dsv,
                    ctlIn, ctlSent, ctlSock, dispatched, credited >>

\* (variant: the control reader is not waited for)
Joined_NoRcsWait(pc) ==
    IF pc = "join_s2p" THEN pcS = "done"
    ELSE IF pc = "join_p2s" THEN pcP = "done"
    ELSE pc = "join_rcs"

\* the thread a join waits for has returned
Joined(pc) ==
    IF pc = "join_s2p" THEN pcS = "done"
    ELSE IF pc = "join_p2s" THEN pcP = "done"
    ELSE IF pc = "join_rcs" THEN pcR = "done"
    ELSE FALSE

\* s2p.join(); p2s.join(); rcs.join(); and main's return 0
MainJoin ==
    /\ Alive /\ Joined(pcM)
    /\ IF pcM = "join_s2p" THEN pcM' = "join_p2s" /\ UNCHANGED xv
       ELSE IF pcM = "join_p2s" THEN pcM' = "join_rcs" /\ UNCHANGED xv
       ELSE exited' = "exit0" /\ exitCause' = "return" /\ UNCHANGED pcM
    /\ UNCHANGED << wp, window, mutex, pv, pcP, sv, rv, exitStatus, ptyv, childv, dsv,
                    csv, hv >>

MainStep == MainWaitpid \/ MainWaitpidFail \/ MainWritePacket \/ MainJoin

(* ------------------------ the child on the PTY ------------------------- *)
\* the k-th byte the shell prints
OutByte(k) == 64 + k

\* the child writes a byte to its terminal
ChildWrite ==
    /\ Alive /\ childState = "running"
    /\ Len(ptyOut) < scn.ptyBytes
    /\ ptyOut' = Append(ptyOut, OutByte(Len(ptyOut) + 1))
    /\ UNCHANGED << wp, window, mutex, pv, pcP, sv, rv, mv, xv, ptyPos, ptyIn, winsize,
                    childv, dsv, csv, hv >>

\* the child exits or is killed; its terminal closes
ChildTerminate ==
    /\ Alive /\ childState = "running"
    /\ \E how \in scn.endings :
          /\ childHow' = how
          /\ childStatus' = IF how[1] = "exited" THEN StatusExited(how[2])
                             ELSE StatusSignaled(how[2])
    /\ childState' = "zombie"
    /\ UNCHANGED << wp, window, mutex, pv, pcP, sv, rv, mv, xv, ptyv, dsv, csv, hv >>

(* ------------------------------ the frontend --------------------------- *)
\* the k-th byte the frontend types
InByte(k) == 96 + k

\* the sum of the deltas of the IncreaseWindow packets among ps
RECURSIVE SumDeltas(_)
SumDeltas(ps) ==
    IF ps = << >> THEN 0
    ELSE (IF PacketType(Head(ps)) = TypeIncreaseWindow THEN WindowAmount(Head(ps)) ELSE 0)
            + SumDeltas(Tail(ps))

\* a frontend that follows the credit protocol acknowledges bytes it has
\* received: all its deltas together never exceed what came over the data socket
MayGrant(p) ==
    (scn.honest /\ PacketType(p) = TypeIncreaseWindow) =>
        (WindowAmount(p) >= 0 /\ SumDeltas(ctlSent) + WindowAmount(p) <= Len(sockOut))

FrontendSendCtl ==
    /\ Alive /\ ctlSock = "open"
    /\ Len(ctlSent) < scn.ctlPackets
    /\ \E p \in scn.packets :
          /\ MayGrant(p)
          /\ ctlIn' = ctlIn \o p
          /\ ctlSent' = Append(ctlSent, p)
    /\ UNCHANGED << wp, window, mutex, pv, pcP, sv, rv, mv, xv, ptyv, childv, dsv,
                    ctlSock, ctlOut, hv >>

FrontendSendData ==
    /\ Alive /\ dataSock = "open"
    /\ inSent < scn.inBytes
    /\ dataIn' = Append(dataIn, InByte(inSent + 1))
    /\ inSent' = inSent + 1
    /\ UNCHANGED << wp, window, mutex, pv, pcP, sv, rv, mv, xv, ptyv, childv, sockOut,
                    dataSock, csv, hv >>

\* an orderly frontend closes its sockets only once it has the exit packet
MayClose == ~scn.orderly \/ Len(ctlOut) > 0

\* the frontend drops the data socket
FrontendCloseData ==
    /\ Alive /\ dataSock = "open" /\ MayClose
    /\ dataSock' = "peerClosed"
    /\ UNCHANGED << wp, window, mutex, pv, pcP, sv, rv, mv, xv, ptyv, childv, sockOut,
                    dataIn, inSent, csv, hv >>

\* the frontend closes the control socket
FrontendCloseCtl ==
    /\ Alive /\ ctlSock = "open" /\ MayClose
    /\ ctlSock' = "peerClosed"
    /\ UNCHANGED << wp, window, mutex, pv, pcP, sv, rv, mv, xv, ptyv, childv, dsv,
                    ctlIn, ctlSent, ctlOut, hv >>

EnvStep ==
    ChildWrite \/ ChildTerminate \/ FrontendSendCtl \/ FrontendSendData
        \/ FrontendCloseData \/ FrontendCloseCtl

(* ---------------------------- specification ---------------------------- *)
Next == P2SStep \/ P2SSpuriousWake \/ RcsStep \/ S2PStep \/ MainStep \/ EnvStep

Spec == Init /\ [][Next]_vars

\* the credit protocol at work: more terminal output and more control packets,
\* a frontend that stays connected
CreditPtyBytes == 2
CreditCtlPackets == 2
InitCredit ==
    Setup(Scenario(CreditPtyBytes, CreditCtlPackets, MaxInBytes, FALSE, TRUE, FrontendPackets,
                   {<< "exited", 0 >>}))
SpecCredit == InitCredit /\ [][Next]_vars

\* the threads are scheduled fairly: a thread whose next step stays possible
\* takes it (a spurious wakeup is possible but never owed); the environment is
\* the credit scenario's with the default amounts
InitLive ==
    Setup(Scenario(MaxPtyBytes, MaxCtlPackets, MaxInBytes, FALSE, TRUE, FrontendPackets,
                   {<< "exited", 0 >>}))
SpecLive ==
    /\ InitLive /\ [][Next]_vars
    /\ WF_vars(P2SStep) /\ WF_vars(RcsStep) /\ WF_vars(S2PStep) /\ WF_vars(MainStep)

\* the packet accumulator at work: the control stream arrives in pieces of any
\* size, so reads end in the middle of packets
CodecCtlPackets == 2
CodecPackets ==
    {PacketBytes(TypeSetSize, LE16(132) \o LE16(43)), PacketBytes(TypeIncreaseWindow, LE32(1)),
     PacketBytes(255, LE32(0))}
InitCodec ==
    Setup(Scenario(MaxPtyBytes, CodecCtlPackets, MaxInBytes, TRUE, TRUE, CodecPackets,
                   {<< "exited", 0 >>}))
SpecCodec == InitCodec /\ [][Next]_vars

(* ------------------------------- properties ---------------------------- *)
\* a frontend that keeps to the credit protocol: it only acknowledges bytes it
\* has received
HonestPtyBytes == 3
HonestCtlPackets == 3
HonestPackets == {PacketBytes(TypeIncreaseWindow, LE32(d)) : d \in 0..MaxSize}
InitHonest ==
    Setup([Scenario(HonestPtyBytes, HonestCtlPackets, MaxInBytes, FALSE, TRUE, HonestPackets,
                    {<< "exited", 0 >>}) EXCEPT !.honest = TRUE])
SpecHonest == InitHonest /\ [][Next]_vars

\* the handler's switch at work: the frontend also sends the types the backend
\* does not accept (a ChildExitStatus packet, type ids 255 and -1)
ProtoCtlPackets == 2
ProtocolPackets ==
    {PacketBytes(TypeSetSize, LE16(132) \o LE16(43)), PacketBytes(TypeIncreaseWindow, LE32(1)),
     PacketBytes(TypeChildExitStatus, LE32(0)), PacketBytes(255, LE32(0)),
     PacketBytes(-1, LE32(1))}
InitProtocol ==
    Setup(Scenario(MaxPtyBytes, ProtoCtlPackets, MaxInBytes, FALSE, TRUE, ProtocolPackets,
                   {<< "exited", 0 >>}))
SpecProtocol == InitProtocol /\ [][Next]_vars

\* C1: the bytes written to the data socket never exceed size plus the sum of
\* the deltas of the IncreaseWindow packets handled so far (bytes sent minus
\* bytes acknowledged is at most size), in every interleaving.
C1_CreditBound == Len(sockOut) <= size + credited

\* C1's case: bytes beyond the initial window went out on returned credit
C1_Witness == Len(sockOut) > size /\ credited > 0

\* C2: the shared credit counter stays within 0..size whatever IncreaseWindow
\* packets arrive and however the reader's add interleaves with the worker's
\* exchange-to-zero; an increase that would break the bound stops at the
\* assertion with the counter untouched.
C2_WindowBound ==
    /\ 0 <= window /\ window <= size
    /\ exitCause = "increase" =>
          credited = SumDeltas(SubSeq(dispatched, 1, Len(dispatched) - 1))

\* C2's case: credit was added after an earlier exchange-to-zero took some
C2_Witness == window > 0 /\ credited > window

\* C7: the bytes written to the data socket are a prefix of the bytes the PTY
\* master produced, in order, none lost, duplicated or reordered, whatever
\* control packets are handled meanwhile: outside the write itself everything
\* read from the PTY has been written.
C7_DataPrefix ==
    /\ Len(sockOut) <= Len(ptyOut)
    /\ sockOut = SubSeq(ptyOut, 1, Len(sockOut))
    /\ (Alive /\ pcP # "write") => Len(sockOut) = ptyPos

\* C7's case: two chunks went out while control packets were being handled
C7_Witness == Len(sockOut) >= 2 /\ Len(dispatched) >= 1 /\ pcP = "dec" /\ Len(chunk) = 1

\* the packets written to the control socket that are ChildExitStatus packets
ExitPackets == {i \in DOMAIN ctlOut : PacketType(ctlOut[i]) = TypeChildExitStatus}

\* C3 as stated: every session writes exactly one ChildExitStatus packet (a
\* process that has ended has written one).
C3_ExactlyOne == ~Alive => Cardinality(ExitPackets) = 1

\* C3, amended: at most one ChildExitStatus packet is written and nothing else
\* ever is; it is there exactly when the supervisor has passed writePacket, so a
\* session that ends before (a broken connection, a failed waitpid, a rejected
\* packet) has written none.
C3_AtMostOne ==
    /\ Len(ctlOut) <= 1
    /\ ExitPackets = DOMAIN ctlOut
    /\ Len(ctlOut) = 1 <=> pcM \in {"join_s2p", "join_p2s", "join_rcs"}

\* C3's case: the session ended after the exit packet was written
C3_Witness == ~Alive /\ Len(ctlOut) = 1 /\ pcM = "join_rcs"

\* successful teardown: the child was reaped, the exit packet written, the PTY
\* drained to end-of-file, and the frontend then closed its sockets
Teardown ==
    /\ childState = "reaped" /\ Len(ctlOut) = 1
    /\ pcP = "done" /\ ptyPos = Len(ptyOut)
    /\ ctlSock = "peerClosed"
    /\ failed \subseteq {"dataRead", "ctlRead"}

\* C4 as stated: a process that ended after a successful teardown ended with
\* exit code 0.
C4_TeardownExitsZero == (~Alive /\ Teardown /\ exitCause \in {"return", "ctlRead"}) => exited = "exit0"

\* C4, amended: exit code 0 is never produced, because the control reader never
\* returns and mainLoop's last join never completes; after a successful teardown
\* the process ends with exit code 1 when the control reader's read finds the
\* closed socket; exit code 1 comes only from a broken connection, a rejected
\* packet or a failed waitpid.
C4_NeverExitsZero ==
    /\ exited # "exit0"
    /\ pcR # "done"
    /\ exited = "exit1" =>
          exitCause \in {"ctlRead", "ctlWrite", "dataWrite", "protocol", "waitpid"}
    /\ (~Alive /\ Teardown /\ failed = {"dataRead", "ctlRead"}) =>
          exited = "exit1" /\ exitCause = "ctlRead"

\* C4's case: the whole teardown happened, the supervisor waits in its last join,
\* and the process ended with code 1 from the control reader
C4_Witness ==
    Teardown /\ pcM = "join_rcs" /\ pcS = "done" /\ exited = "exit1" /\ exitCause = "ctlRead"

\* C10: the ChildExitStatus packet carries the low 8 bits of the exit code of a
\* child that exited normally and 1 for any other ending, and it is written only
\* after the child has been reaped.
C10_ExitStatus ==
    \A i \in DOMAIN ctlOut :
        /\ childState = "reaped"
        /\ PacketType(ctlOut[i]) = TypeChildExitStatus
        /\ ExitStatusOf(ctlOut[i]) =
              IF childHow[1] = "exited" THEN childHow[2] % 256 ELSE 1

\* C10's case: an exit code above 255 was reported by its low 8 bits
C10_Witness == Len(ctlOut) = 1 /\ childHow = << "exited", 258 >>

\* the socket calls whose failure the code treats as a broken connection
FatalCalls == {"dataWrite", "ctlRead", "ctlWrite"}

\* C9 as stated: once any read or write on either socket has returned an error
\* or zero, the process has ended with exit code 1.
C9_AnyFailureFatal == failed # {} => exited = "exit1"

\* C9, amended: a failed write on the data socket, a failed write on the control
\* socket and a failed read on the control socket are fatal (connection broken,
\* exit code 1, and no ChildExitStatus packet is written from then on); a
\* data-socket read that returns an error or zero is not fatal, it only ends the
\* socket-to-PTY worker.
C9_TransportFatal ==
    /\ [](failed \cap FatalCalls # {} =>
            exited = "exit1" /\ exitCause \in failed \cap FatalCalls)
    /\ []("ctlWrite" \in failed => ctlOut = << >>)
    /\ []("dataRead" \in failed => pcS = "done")
    /\ [][failed \cap FatalCalls # {} => ctlOut' = ctlOut]_vars
    /\ [][("dataRead" \notin failed /\ "dataRead" \in failed') => exited' = "running"]_vars

\* C9's case: the data-socket read had failed and the process ran on, then the
\* write of the exit packet failed and ended it
C9_Witness == "dataRead" \in failed /\ exitCause = "ctlWrite" /\ exited = "exit1"

\* C8 as stated: after the frontend dropped the data socket with the child
\* still running, the PTY-to-socket worker does not abort the process before
\* the child exits.
C8_RunsUntilChildExits ==
    (dataSock = "peerClosed" /\ childState = "running") => exitCause # "dataWrite"

\* C8, amended: when the frontend drops the data socket while the child runs,
\* the socket-to-PTY worker returns without ending the process or disturbing the
\* PTY-to-socket worker; that worker leaves its loop only at the PTY's
\* end-of-file, after the child has gone, but its next write to the dropped
\* socket may fail and then ends the process with exit code 1, child running
\* or not.
C8_DropEndsInputOnly ==
    /\ [][("dataRead" \notin failed /\ "dataRead" \in failed') =>
            (exited' = "running" /\ pcS' = "done" /\ pcP' = pcP /\ pv' = pv)]_vars
    /\ [](pcP = "done" => childState # "running")
    /\ [](exitCause = "dataWrite" =>
            exited = "exit1" /\ dataSock = "peerClosed" /\ pcP = "write")

\* C8's case: the socket was dropped with the child running, the socket-to-PTY
\* worker has returned, and the PTY-to-socket worker is about to write to it
C8_Witness ==
    /\ Alive /\ dataSock = "peerClosed" /\ childState = "running"
    /\ pcS = "done" /\ pcP = "write"

\* the control-socket bytes the reader has taken so far
CtlBytesRead == Len(ctlSent) * PacketSize - Len(ctlIn)

\* C6: however the control stream is cut into reads, the reader hands the
\* handler exactly the whole packets received so far, each once and in arrival
\* order, never a partial packet: what was dispatched is a prefix of the packets
\* sent, no longer than the whole packets read, and all of them once the reader
\* is back at its read; the bytes held back are the head of the next packet.
C6_CodecOrder ==
    /\ Len(dispatched) <= CtlBytesRead \div PacketSize
    /\ \A i \in DOMAIN dispatched : dispatched[i] = ctlSent[i]
    /\ (Alive /\ pcR = "read") =>
          /\ Len(dispatched) = CtlBytesRead \div PacketSize
          /\ accum = CtlBytesRead % PacketSize
          /\ accum > 0 =>
                SubSeq(rbuf, 1, accum) = SubSeq(ctlSent[Len(dispatched) + 1], 1, accum)

\* C6's case: a read ended in the middle of the second packet, after the first
\* packet of the same read was dispatched
C6_Witness ==
    /\ Alive /\ pcR = "read" /\ Len(dispatched) = 1
    /\ accum > 4 /\ accum < PacketSize /\ Len(rbuf) > PacketSize

\* the PTY-to-socket worker is between its failed credit check and its next PTY
\* read: taking the mutex, in the wait, or woken and re-taking the mutex
P2SBlocked == pcP \in {"lock", "pred", "waiting", "woken"}

\* C5: the flow-control loop loses no wakeup: under fair scheduling a worker
\* held up for lack of credit goes on to read the PTY once loc_window plus the
\* shared counter has reached threshold (as long as the process runs), for every
\* 1 <= threshold <= size, size = threshold = 1 included.
C5_NoLostWakeup ==
    (Alive /\ P2SBlocked /\ locWindow + window >= threshold) ~> (pcP = "read" \/ ~Alive)

\* C5's case: with size = threshold = 1 the worker sleeps in the wait while the
\* credit it needs has just been added and the notification is still to come
C5_Witness ==
    /\ Alive /\ size = 1 /\ threshold = 1
    /\ pcP = "waiting" /\ locWindow + window >= threshold /\ pcR = "iw_notify"

\* the packet types handlePacket accepts
AcceptedTypes == {TypeSetSize, TypeIncreaseWindow}

\* the packet most recently handed to handlePacket
LastDispatched == dispatched[Len(dispatched)]

\* C11: a dispatched packet whose type is neither SetSize nor IncreaseWindow (a
\* ChildExitStatus packet or type id 255 from the frontend included) ends the
\* process with exit code 1, and that packet leaves the shared counter and
\* loc_window as they were.
C11_UnexpectedPacket ==
    /\ [][(dispatched' # dispatched /\ PacketType(dispatched'[Len(dispatched')]) \notin AcceptedTypes)
            => /\ exited' = "exit1" /\ exitCause' = "protocol"
               /\ window' = window /\ locWindow' = locWindow /\ credited' = credited]_vars
    /\ [](exitCause = "protocol" =>
            exited = "exit1" /\ PacketType(LastDispatched) \notin AcceptedTypes)

\* C11's case: a ChildExitStatus packet from the frontend was rejected while
\* credit sat in the shared counter
C11_Witness ==
    /\ exitCause = "protocol" /\ PacketType(LastDispatched) = TypeChildExitStatus
    /\ window > 0

\* C12: the worker reads the PTY only with loc_window >= threshold, asking for
\* exactly min(32768, loc_window) >= 1 bytes (it gets what is there, up to
\* that); with loc_window below threshold nothing is read from the PTY and
\* nothing is written to the data socket.
C12_ReadNeedsWindow ==
    /\ [](pcP \in {"read", "write"} => locWindow >= threshold /\ locWindow >= 1)
    /\ [](pcP \in {"write", "dec"} =>
            Len(chunk) >= 1 /\ Len(chunk) <= locWindow /\ Len(chunk) <= 32768)
    /\ [][ptyPos' # ptyPos =>
            /\ locWindow >= threshold
            /\ ptyPos' - ptyPos =
                 Min(IF locWindow < 32768 THEN locWindow ELSE 32768, Len(ptyOut) - ptyPos)]_vars
    /\ [][sockOut' # sockOut => locWindow >= threshold]_vars
    /\ [][(locWindow < threshold /\ locWindow' < threshold) =>
            (ptyPos' = ptyPos /\ sockOut' = sockOut)]_vars

\* C12's case: the whole window is spent, more terminal output is pending, no
\* credit has come back, and the worker sits in the wait
C12_Witness ==
    /\ Alive /\ pcP = "waiting" /\ credited = 0
    /\ Len(sockOut) = size /\ ptyPos < Len(ptyOut) /\ locWindow < threshold

\* the PTY-to-socket worker leaves its loop on a PTY read of <= 0: it shuts the
\* data socket down, the process keeps running, and everything read from the PTY
\* is on the data socket by then
ShutdownOnPtyEof ==
    /\ [][(pcP # "done" /\ pcP' = "done") =>
            /\ pcP = "read" /\ ptyPos = Len(ptyOut) /\ childState # "running"
            /\ dataSock' = "shutdown" /\ xv' = xv /\ exited' = "running"
            /\ sockOut' = sockOut /\ ptyPos' = ptyPos]_vars
    /\ [][(dataSock # "shutdown" /\ dataSock' = "shutdown") => pcP' = "done"]_vars
    /\ [](dataSock = "shutdown" =>
            pcP = "done" /\ sockOut = SubSeq(ptyOut, 1, ptyPos))

\* C13 as stated: on a PTY read of <= 0 the worker shuts the data socket down
\* and returns without aborting, all PTY bytes written before; the very next
\* data-socket read of the socket-to-PTY worker then returns <= 0.
C13_NextReadEnds ==
    /\ ShutdownOnPtyEof
    /\ [][(dataSock = "shutdown" /\ pcS = "read" /\ pcS' # "read") => pcS' = "done"]_vars

\* C13: on a PTY read of <= 0 the worker shuts the data socket down and returns
\* without aborting, all PTY bytes written before; from then on a data-socket
\* read that finds no input pending returns <= 0 without the frontend closing
\* anything, reads return only input received before the shutdown, and under
\* fair scheduling the socket-to-PTY worker terminates (or the process ends).
C13_ShutdownEndsInput ==
    /\ ShutdownOnPtyEof
    /\ [][(dataSock = "shutdown" /\ pcS = "read" /\ pcS' # "read" /\ Len(dataIn) = 0)
            => pcS' = "done" /\ "dataRead" \in failed']_vars
    /\ [][dataSock = "shutdown" => Len(dataIn') <= Len(dataIn)]_vars
    /\ (dataSock = "shutdown") ~> (pcS = "done" \/ ~Alive)

\* C13's case: the PTY reached end of file, the data socket is shut down, and
\* the socket-to-PTY worker, which had passed input on, ended on a failed read
\* while the process still runs
C13_Witness ==
    /\ Alive /\ dataSock = "shutdown" /\ pcP = "done" /\ pcS = "done"
    /\ Len(ptyIn) > 0 /\ Len(sockOut) > 0 /\ "dataRead" \in failed

\* C14: a failed PTY write (the child is gone) ends neither the socket-to-PTY
\* worker nor the process: the bytes are dropped, the worker goes back to
\* reading the data socket, and it leaves its loop only on a data-socket read
\* of <= 0.
C14_PtyWriteFailureIgnored ==
    /\ [][(pcS = "write" /\ inBuf' # inBuf /\ childState # "running") =>
            /\ pcS' = "read" /\ xv' = xv /\ exited' = "running"
            /\ ptyIn' = ptyIn /\ inBuf' = << >> /\ failed' = failed]_vars
    /\ [][(pcS # "done" /\ pcS' = "done") =>
            /\ pcS = "read" /\ Len(inBuf) = 0
            /\ "dataRead" \notin failed /\ "dataRead" \in failed']_vars

\* C14's case: input arrived after the child had gone, was dropped by the
\* failed write, and the worker is back at its read in a running process
C14_Witness ==
    /\ Alive /\ pcS = "read" /\ childState # "running"
    /\ inSent > 0 /\ Len(dataIn) = 0 /\ Len(ptyIn) = 0

\* the control reader changes the credit counter only in its add, holding the
\* window mutex
AddUnderMutex ==
    /\ [][window' > window => pcR = "iw_add" /\ mutex = "rcs"]_vars
    /\ [][(pcR = "iw_add" /\ pcR' # pcR) => mutex = "rcs" /\ mutex' = "none"]_vars
    /\ [][(pcR' # pcR /\ pcR # "iw_add") => window' = window]_vars

\* C15 as stated: the control reader updates the credit counter only while it
\* holds the window mutex, and it signals the condition variable only while it
\* holds the mutex.
C15_NotifyUnderMutex ==
    /\ AddUnderMutex
    /\ [][(pcR = "iw_notify" /\ pcR' # pcR) => mutex = "rcs"]_vars

\* C15: the control reader updates the credit counter only while it holds the
\* window mutex; it signals the condition variable after releasing the mutex,
\* once for each add and never while holding it.
C15_NotifyAfterUnlock ==
    /\ AddUnderMutex
    /\ [][(pcR = "iw_notify" /\ pcR' # pcR) =>
            mutex # "rcs" /\ mutex' = mutex /\ window' = window]_vars
    /\ [][(pcR' = "iw_notify" /\ pcR # pcR') => pcR = "iw_add"]_vars
    /\ [][(pcP = "waiting" /\ pcP' = "woken" /\ pcR' # pcR) => pcR = "iw_notify"]_vars

\* C15's case: credit was added and the mutex released, the notification is
\* about to be sent to a worker blocked in the wait
C15_Witness ==
    /\ Alive /\ pcR = "iw_notify" /\ mutex = "none"
    /\ window > 0 /\ credited > 0 /\ pcP = "waiting"

\* C16: with threshold = size every PTY read is issued at loc_window = size,
\* when every byte written to the data socket so far has been credited back
\* and folded in; after a chunk is written no PTY read follows until the
\* window is full again.
C16_SingleChunkPerRefill ==
    /\ []((threshold = size /\ pcP = "read") =>
            locWindow = size /\ folded = Len(sockOut) /\ ptyPos = Len(sockOut))
    /\ [][(threshold = size /\ ptyPos' # ptyPos) =>
            locWindow = size /\ folded = Len(sockOut) /\ folded <= credited]_vars
    /\ []((threshold = size /\ locWindow < size) => pcP # "read")

\* C16's case: threshold = size = 2, a one-byte chunk went out, its credit came
\* back and was folded in, and the worker is at its next PTY read
C16_Witness ==
    /\ threshold = size /\ size = 2 /\ Alive
    /\ pcP = "read" /\ Len(sockOut) = 1 /\ folded = 1 /\ locWindow = size

\* the control reader is handling an IncreaseWindow packet whose delta is 0
HandlingZeroDelta ==
    /\ \/ pcR \in {"iw_lock", "iw_add", "iw_notify"}
       \/ pcR = "dispatch" /\ idx < fullPacketCount
    /\ PacketType(PacketAt(rbuf, idx)) = TypeIncreaseWindow
    /\ WindowAmount(PacketAt(rbuf, idx)) = 0

\* C17: IncreaseWindow with delta 0 is a no-op: it is accepted without
\* aborting, the shared counter and loc_window keep their values, and a worker
\* blocked for lack of credit is still blocked after the notification it
\* causes (it stays blocked for as long as loc_window plus the counter is
\* below threshold).
C17_ZeroDeltaNoOp ==
    /\ [][(HandlingZeroDelta /\ (pcR' # pcR \/ dispatched' # dispatched)) =>
            /\ exited' = "running" /\ pcR' # "done"
            /\ window' = window /\ locWindow' = locWindow
            /\ credited' = credited /\ folded' = folded
            /\ (P2SBlocked => P2SBlocked')]_vars
    /\ [][(P2SBlocked /\ locWindow + window < threshold
                      /\ locWindow' + window' < threshold) => P2SBlocked']_vars

\* C17's case: a worker waiting for credit was notified for a delta of 0 and,
\* having evaluated the predicate again, waits again with nothing changed
C17_Witness ==
    /\ Alive /\ pcP = "waiting" /\ locWindow < threshold
    /\ window = 0 /\ credited = 0 /\ folded = 0
    /\ Len(dispatched) = 1 /\ WindowAmount(dispatched[1]) = 0
    /\ PacketType(dispatched[1]) = TypeIncreaseWindow
    /\ pcR \in {"dispatch", "read"} /\ Len(sockOut) = size

\* the checks of the credit protocol: the control reader's on cw and iw, the
\* worker's on the exchanged-out iw and on loc_window
CreditAsserts == {"increase", "fold", "locWindow"}

\* C18: when the frontend never grants more credit in total than the bytes it
\* has received on the data socket, no check of the credit protocol fails,
\* whatever the interleaving: not the control reader's (0 <= cw <= size,
\* 0 <= iw <= size - cw), not the worker's (iw <= size - loc_window at a fold,
\* 0 <= loc_window <= size at the head of the loop).
C18_HonestNoAssert ==
    /\ exitCause \notin CreditAsserts /\ exited # "abort"
    /\ credited <= Len(sockOut)
    /\ window >= 0 /\ window <= size /\ locWindow >= 0 /\ locWindow <= size
    /\ (pcP \in {"fold", "pred"} => window <= size - locWindow)

\* C18's case: the frontend has acknowledged a chunk the worker wrote but has
\* not yet taken off loc_window, and the acknowledgement is in the counter
C18_Witness ==
    /\ Alive /\ pcP = "dec" /\ Len(chunk) > 0 /\ locWindow = size
    /\ credited = Len(sockOut) /\ window = Len(chunk) /\ folded > 0

\* the delta of an IncreaseWindow packet that passed the handler's check and is
\* not yet added to the counter
PendingDelta ==
    IF pcR \in {"iw_lock", "iw_add"} THEN WindowAmount(PacketAt(rbuf, idx)) ELSE 0

\* C19: credit is conserved: what the worker has folded into loc_window plus
\* what the shared counter holds equals the sum of the deltas of the
\* IncreaseWindow packets handled so far, in every interleaving of the control
\* reader's add with the worker's exchange (a process that aborted in the check
\* between the exchange and the fold has no state to speak of).
C19_CreditConserved ==
    /\ exitCause # "fold" => folded + window = credited
    /\ exitCause # "increase" => credited + PendingDelta = SumDeltas(dispatched)
    /\ locWindow = size + folded - (Len(sockOut) - (IF pcP = "dec" THEN Len(chunk) ELSE 0))
         \/ exitCause = "dataWrite"

\* C19's case: one delta has been folded into loc_window and a later one is in
\* the counter
C19_Witness ==
    /\ Alive /\ folded > 0 /\ window > 0 /\ credited = folded + window
    /\ Len(dispatched) = 2

\* C20: each control-socket read starts with fewer accumulated bytes than one
\* packet, so it asks for at least one byte and accum <= sizeof(buf) holds
\* after it; no read of length zero is issued, so a read fails only when the
\* peer has closed the socket.
C20_ReadRequestsBytes ==
    /\ [](pcR = "read" => accum >= 0 /\ accum < PacketSize /\ BufBytes - accum >= 1)
    /\ [](accum <= BufBytes /\ exitCause # "accum")
    /\ [][(pcR = "read" /\ accum' # accum) =>
            accum' > accum /\ accum' - accum <= BufBytes - accum /\ accum' <= BufBytes]_vars
    /\ [][("ctlRead" \notin failed /\ "ctlRead" \in failed') =>
            ctlSock # "open" /\ Len(ctlIn) = 0]_vars

\* C20's case: packets were dispatched and part of the next packet was left
\* over; the next read starts with those bytes at the front of the buffer
C20_Witness ==
    /\ Alive /\ pcR = "read" /\ accum > 0 /\ accum < PacketSize
    /\ Len(dispatched) >= 1 /\ Len(ctlIn) > 0

====
